---- MODULE Spec2Model ----
(***************************************************************************)
(* Model of src/app.py: the Streamlit event-marketing wizard.              *)
(*                                                                         *)
(* The session dictionary (st.session_state) is the state.  One action of  *)
(* the model is one execution of the script (create_event_page from top to *)
(* bottom): either a run started by a widget event (a form submission, a   *)
(* button click, a text-area edit) or a run started by st.rerun().  A run  *)
(* that ends in st.rerun() leaves rerun = TRUE, and the next run is the    *)
(* automatic one; a run that reaches the end of the script leaves          *)
(* rerun = FALSE and the widgets it rendered wait for the user.            *)
(*                                                                         *)
(* Texts are sequences of tokens (a token is a piece of text; a line       *)
(* break and a code fence are tokens of their own), so that str.replace,   *)
(* str.split and str.strip are modelled by what they do on the pieces.     *)
(***************************************************************************)
EXTENDS Integers, Sequences, FiniteSets, TLC

(***************************************************************************)
(* Bounds of the model.                                                    *)
(***************************************************************************)
\* image pipeline calls per class and run (the regenerate loop is unbounded)
MaxCalls == 2
\* rows the events table may hold
MaxRows == 2
\* readings of the system clock
MaxClock == 1

(***************************************************************************)
(* Values.                                                                 *)
(***************************************************************************)
NL == "\n"
SP == " "
\* the code-fence marker (three backquotes)
FENCE == "[fence]"

\* Python's None for an image reference; a reference is what one call returned
None == [class |-> "none", n |-> 0]
Url(class, n) == [class |-> class, n |-> n]

\* The form's inputs (lines 254-274), drawn from small sets
Titles == {<<"Sunrise Yoga">>}
StartTimes == {"19:00"}
EndTimes == {"21:00"}
Locations == {<<"Sofia">>}
FacilitatorNames == {<<"Ana">>}
ShortDescs == {<<"themes">>}

FormInputs ==
    [title : Titles, start_time : StartTimes, end_time : EndTimes,
     location : Locations, facilitators : FacilitatorNames,
     short_desc : ShortDescs,
     gen_fb : BOOLEAN, gen_ig : BOOLEAN, gen_news : BOOLEAN]

\* What the text provider may answer to the description request
GeneratedTexts == {<<"copy">>}
\* How a provider call may fail (the exception raised by the client)
ProviderErrors == {"APIError", "RateLimitError", "AuthenticationError", "Exception"}
\* What the text provider may answer to the newsletter request
NewsletterOutputs ==
    { <<NL, "<html/>", NL>>,
      <<FENCE, "html", NL, "<html/>", NL, FENCE>>,
      <<FENCE, NL, "<html/>", NL, FENCE>> }
\* What the user may type into the two text areas
EditedDescriptions == {<<"my", NL, "text">>}
EditedNewsletters == {<<"<p/>">>}

\* The database files: the literal 'events.db' and another configured name
DbFiles == {"events.db", "custom.db"}

(***************************************************************************)
(* Python string operations on token sequences.                            *)
(***************************************************************************)
\* s.replace(old, new) for a one-token old
RECURSIVE Replace(_, _, _)
Replace(s, old, new) ==
    IF s = <<>> THEN <<>>
    ELSE (IF Head(s) = old THEN new ELSE <<Head(s)>>) \o Replace(Tail(s), old, new)

IsSpace(tok) == tok \in {NL, SP}

\* s with its leading whitespace removed
RECURSIVE LStrip(_)
LStrip(s) ==
    IF s # <<>> /\ IsSpace(Head(s)) THEN LStrip(Tail(s)) ELSE s

\* s with its trailing whitespace removed
RECURSIVE RStrip(_)
RStrip(s) ==
    IF s # <<>> /\ IsSpace(s[Len(s)]) THEN RStrip(SubSeq(s, 1, Len(s) - 1)) ELSE s

\* s.strip()
Strip(s) == RStrip(LStrip(s))

\* does the piece sep start at position i of s
StartsAt(s, sep, i) ==
    /\ i + Len(sep) - 1 <= Len(s)
    /\ \A k \in 1..Len(sep) : s[i + k - 1] = sep[k]

\* the positions where sep occurs in s
Occurrences(s, sep) == {i \in 1..Len(s) : StartsAt(s, sep, i)}

\* sep in s
Contains(s, sep) == Occurrences(s, sep) # {}

\* s.split(sep)[0]: the text before the first sep, all of s when there is none
BeforeFirst(s, sep) ==
    IF Contains(s, sep)
    THEN LET i == CHOOSE j \in Occurrences(s, sep) :
                      \A k \in Occurrences(s, sep) : j <= k
         IN SubSeq(s, 1, i - 1)
    ELSE s

\* s.split(sep)[1] when sep occurs in s: the text between the first sep and
\* the next one (or the end)
AfterFirst(s, sep) ==
    LET i == CHOOSE j \in Occurrences(s, sep) :
                 \A k \in Occurrences(s, sep) : j <= k
        rest == SubSeq(s, i + Len(sep), Len(s))
    IN BeforeFirst(rest, sep)

(***************************************************************************)
(* The state.                                                              *)
(***************************************************************************)
VARIABLES
    stage,                  \* st.session_state.stage
    description_approved,   \* the four approval flags
    fb_image_approved,
    ig_image_approved,
    newsletter_approved,
    generated_description,  \* the description text
    fb_image_url,           \* the image references (None when absent)
    ig_image_url,
    newsletter_html,        \* the newsletter body
    user_inputs,            \* the captured form ({} before the first submission)
    rerun,                  \* TRUE when the last run ended in st.rerun()
    notice,                 \* the status message the last run displayed
    raised,                 \* the exceptions the last run caught: {<<call, error>>}
    DB_FILE,                \* the configured database file
    db,                     \* per file: is the events table there, and its rows
    clock,                  \* the last reading of datetime.now()
    desc_calls,             \* pipeline calls made since the last submission
    fb_calls,
    ig_calls,
    news_calls

session == <<stage, description_approved, fb_image_approved, ig_image_approved,
             newsletter_approved, generated_description, fb_image_url,
             ig_image_url, newsletter_html, user_inputs>>
calls == <<desc_calls, fb_calls, ig_calls, news_calls>>
store == <<DB_FILE, db, clock>>
vars == <<session, rerun, notice, raised, store, calls>>

(***************************************************************************)
(* init_session_state and initialize_database.                             *)
(***************************************************************************)
\* The defaults init_session_state gives the nine keys the form resets
SessionDefaults ==
    [stage |-> "initial",
     description_approved |-> FALSE,
     fb_image_approved |-> FALSE,
     ig_image_approved |-> FALSE,
     newsletter_approved |-> FALSE,
     generated_description |-> <<>>,
     fb_image_url |-> None,
     ig_image_url |-> None,
     newsletter_html |-> <<>>]

\* CREATE TABLE IF NOT EXISTS events, in the configured file
InitializeDatabase(d, file) ==
    [d EXCEPT ![file] = [has_table |-> TRUE, rows |-> d[file].rows]]

\* user_inputs.get(key, default)
Get(key, default) ==
    IF key \in DOMAIN user_inputs THEN user_inputs[key] ELSE default

Init ==
    /\ stage = SessionDefaults.stage
    /\ description_approved = SessionDefaults.description_approved
    /\ fb_image_approved = SessionDefaults.fb_image_approved
    /\ ig_image_approved = SessionDefaults.ig_image_approved
    /\ newsletter_approved = SessionDefaults.newsletter_approved
    /\ generated_description = SessionDefaults.generated_description
    /\ fb_image_url = SessionDefaults.fb_image_url
    /\ ig_image_url = SessionDefaults.ig_image_url
    /\ newsletter_html = SessionDefaults.newsletter_html
    /\ user_inputs = <<>>
    /\ rerun = FALSE
    /\ notice = "none"
    /\ raised = {}
    /\ DB_FILE \in DbFiles
    /\ db = InitializeDatabase([f \in DbFiles |-> [has_table |-> FALSE, rows |-> <<>>]],
                               DB_FILE)
    /\ clock = 0
    /\ desc_calls = 0
    /\ fb_calls = 0
    /\ ig_calls = 0
    /\ news_calls = 0
(***************************************************************************)
(* The generation pipeline.                                                *)
(***************************************************************************)
\* The footer run_content_writer_agent appends to the provider's text
FormatDescription(text, inp) ==
    text \o <<NL, NL, "**Facilitators:** ">> \o inp.facilitators
         \o <<NL, NL, "**When:** ", inp.start_time, " to ", inp.end_time>>
         \o <<NL, NL, "**Where:** ">> \o inp.location

\* The openai client's exception classes: the class an exception class derives from
ParentClass(cls) ==
    CASE cls = "RateLimitError" -> "APIError"
      [] cls = "AuthenticationError" -> "APIError"
      [] cls = "APIError" -> "Exception"
      [] OTHER -> "Exception"

\* isinstance(an exception of class err, cls)
IsInstance(err, cls) ==
    \/ cls = "Exception"
    \/ err = cls
    \/ ParentClass(err) = cls

\* The message of the first except clause of run_content_writer_agent that
\* matches, in the order the clauses are written
DescriptionErrorNotice(err) ==
    IF IsInstance(err, "APIError") THEN "service_might_be_down"
    ELSE IF IsInstance(err, "RateLimitError") \/ IsInstance(err, "AuthenticationError")
         THEN "check_key_or_limits"
    ELSE "unexpected_error"

\* (mutant) a failed image call hands back a reference all the same
ImageAgentResult_ErrorReference(outcome, class, n) == Url(class, n)

\* What run_image_designer_agent returns: the URL of the response, or None
\* from either except clause
ImageAgentResult(outcome, class, n) ==
    IF outcome = "ok" THEN Url(class, n) ELSE None

ImageOutcomes == {"ok", "APIError", "Exception"}

\* The outcomes in which the client raised
ImageErrors == ImageOutcomes \ {"ok"}

\* The clean-up of the newsletter response (lines 192-194)
CleanNewsletter(html_content) ==
    Strip(IF Contains(html_content, <<FENCE, "html">>)
          THEN BeforeFirst(AfterFirst(html_content, <<FENCE, "html">>), <<FENCE>>)
          ELSE html_content)

\* (mutant) the line breaks of the description are kept as they are
ManualNewsletter_NoBreaks(title, description) ==
    <<"<h1>">> \o title \o <<"</h1>", "<p>">> \o description \o <<"</p>">>

\* The body composed without a header image (line 417)
ManualNewsletter(title, description) ==
    <<"<h1>">> \o title \o <<"</h1>", "<p>">>
        \o Replace(description, NL, <<"<br>">>) \o <<"</p>">>

\* header_image = fb_image_url or ig_image_url
HeaderImage == IF fb_image_url # None THEN fb_image_url ELSE ig_image_url

(***************************************************************************)
(* The gates.                                                              *)
(***************************************************************************)
\* (mutant) the gate looks at the Facebook image only
AllImagesApproved_FbOnly ==
    ~user_inputs.gen_fb \/ fb_image_approved

\* all_images_approved (lines 352-355)
AllImagesApproved ==
    /\ (~user_inputs.gen_fb \/ fb_image_approved)
    /\ (~user_inputs.gen_ig \/ ig_image_approved)

\* all_approved (lines 442-446)
AllApproved ==
    /\ description_approved
    /\ (~Get("gen_fb", FALSE) \/ fb_image_approved)
    /\ (~Get("gen_ig", FALSE) \/ ig_image_approved)
    /\ (~Get("gen_news", FALSE) \/ newsletter_approved)

\* The stages in which the description text area and its button are drawn
DescriptionStages ==
    {"review_description", "Image Generations", "review_images",
     "generate_newsletter", "review_newsletter", "final"}

\* The stages in which the image columns are drawn
ImageStages == {"review_images", "generate_newsletter", "review_newsletter", "final"}

\* The stages in which the newsletter preview is drawn
NewsletterStages == {"review_newsletter", "final"}

\* (mutant) the buttons are drawn for an approved image too
FbButtonsShown_IgnoresApproval ==
    /\ stage \in ImageStages /\ description_approved
    /\ user_inputs.gen_fb
    /\ fb_image_url # None

\* The three Facebook buttons are drawn (lines 358-364)
FbButtonsShown ==
    /\ stage \in ImageStages /\ description_approved
    /\ user_inputs.gen_fb
    /\ fb_image_url # None
    /\ ~fb_image_approved

\* The three Instagram buttons are drawn (lines 379-385)
IgButtonsShown ==
    /\ stage \in ImageStages /\ description_approved
    /\ user_inputs.gen_ig
    /\ ig_image_url # None
    /\ ~ig_image_approved

\* (mutant) the description's approve button is drawn after the approval too
DescriptionButtonShown_Always == stage \in DescriptionStages

\* The description's approve button is drawn (lines 314, 321)
DescriptionButtonShown ==
    stage \in DescriptionStages /\ ~description_approved

\* (mutant) the newsletter section does not look at the request flag
NewsletterShown_IgnoresFlag == stage \in NewsletterStages

\* The newsletter's text area is drawn (line 425)
NewsletterShown ==
    stage \in NewsletterStages /\ user_inputs.gen_news

\* The save button is drawn (line 448)
SaveButtonShown == stage = "final" /\ AllApproved

\* Every run of the script starts with initialize_database (line 529)
StartupStore ==
    /\ db' = InitializeDatabase(db, DB_FILE)
    /\ UNCHANGED <<DB_FILE, clock>>
(***************************************************************************)
(* Runs started by a widget event.  The widgets the user can act on are    *)
(* the ones the last completed run drew (rerun = FALSE); the form is drawn *)
(* by every run before anything else happens.                              *)
(***************************************************************************)
\* (mutant) the submission skips the description call
StageAfterSubmit_SkipsCall == "review_description"

\* The stage a submission sets (line 297)
StageAfterSubmit == "generate_description"

\* (mutant) the newsletter's keys are missing from the list of line 286
ResetKeys_WithoutNewsletter ==
    {"stage", "description_approved", "fb_image_approved", "ig_image_approved",
     "generated_description", "fb_image_url", "ig_image_url"}

\* The keys a submission deletes from the session (lines 286-287)
ResetKeys ==
    {"stage", "description_approved", "fb_image_approved", "ig_image_approved",
     "newsletter_approved", "generated_description", "fb_image_url",
     "ig_image_url", "newsletter_html"}

\* The value of a key after the deletion loop and init_session_state, which
\* sets only the keys that are missing (lines 286-290)
AfterReset(key, current) ==
    IF key \in ResetKeys THEN SessionDefaults[key] ELSE current

\* "Generate Content" (lines 284-298)
Submit(inp) ==
    /\ stage' = StageAfterSubmit
    /\ description_approved' = AfterReset("description_approved", description_approved)
    /\ fb_image_approved' = AfterReset("fb_image_approved", fb_image_approved)
    /\ ig_image_approved' = AfterReset("ig_image_approved", ig_image_approved)
    /\ newsletter_approved' = AfterReset("newsletter_approved", newsletter_approved)
    /\ generated_description' = AfterReset("generated_description", generated_description)
    /\ fb_image_url' = AfterReset("fb_image_url", fb_image_url)
    /\ ig_image_url' = AfterReset("ig_image_url", ig_image_url)
    /\ newsletter_html' = AfterReset("newsletter_html", newsletter_html)
    /\ user_inputs' = inp
    /\ rerun' = TRUE
    /\ notice' = "none"
    /\ raised' = {}
    /\ desc_calls' = 0 /\ fb_calls' = 0 /\ ig_calls' = 0 /\ news_calls' = 0
    /\ StartupStore

\* The user edits the description text area (lines 317-319); nothing else of
\* the run applies and the script reaches its end
EditDescription(text) ==
    /\ ~rerun
    /\ stage \in DescriptionStages
    /\ text # generated_description
    /\ generated_description' = text
    /\ rerun' = FALSE
    /\ notice' = "none"
    /\ raised' = {}
    /\ UNCHANGED <<stage, description_approved, fb_image_approved,
                   ig_image_approved, newsletter_approved, fb_image_url,
                   ig_image_url, newsletter_html, user_inputs, calls>>
    /\ StartupStore

\* "Approve Description" (lines 321-325)
ApproveDescription ==
    /\ ~rerun
    /\ DescriptionButtonShown
    /\ description_approved' = TRUE
    /\ stage' = "Image Generations"
    /\ rerun' = TRUE
    /\ notice' = "none"
    /\ raised' = {}
    /\ UNCHANGED <<fb_image_approved, ig_image_approved, newsletter_approved,
                   generated_description, fb_image_url, ig_image_url,
                   newsletter_html, user_inputs, calls>>
    /\ StartupStore

\* The image calls the next run of "Image Generations" would make stay
\* within MaxCalls
WithinCalls ==
    /\ (user_inputs.gen_fb /\ ~fb_image_approved) => fb_calls < MaxCalls
    /\ (user_inputs.gen_ig /\ ~ig_image_approved) => ig_calls < MaxCalls

\* "Regenerate FB Image" (lines 365-368)
RegenerateFB ==
    /\ ~rerun
    /\ FbButtonsShown
    /\ WithinCalls
    /\ fb_image_url' = None
    /\ stage' = "Image Generations"
    /\ rerun' = TRUE
    /\ notice' = "none"
    /\ raised' = {}
    /\ UNCHANGED <<description_approved, fb_image_approved, ig_image_approved,
                   newsletter_approved, generated_description, ig_image_url,
                   newsletter_html, user_inputs, calls>>
    /\ StartupStore

\* "Approve FB Image" (lines 369-371)
ApproveFB ==
    /\ ~rerun
    /\ FbButtonsShown
    /\ fb_image_approved' = TRUE
    /\ rerun' = TRUE
    /\ notice' = "none"
    /\ raised' = {}
    /\ UNCHANGED <<stage, description_approved, ig_image_approved,
                   newsletter_approved, generated_description, fb_image_url,
                   ig_image_url, newsletter_html, user_inputs, calls>>
    /\ StartupStore

\* "Approve without FB Image" (lines 372-375)
ApproveWithoutFB ==
    /\ ~rerun
    /\ FbButtonsShown
    /\ fb_image_approved' = TRUE
    /\ fb_image_url' = None
    /\ rerun' = TRUE
    /\ notice' = "none"
    /\ raised' = {}
    /\ UNCHANGED <<stage, description_approved, ig_image_approved,
                   newsletter_approved, generated_description, ig_image_url,
                   newsletter_html, user_inputs, calls>>
    /\ StartupStore

\* "Regenerate IG Image" (lines 386-389)
RegenerateIG ==
    /\ ~rerun
    /\ IgButtonsShown
    /\ WithinCalls
    /\ ig_image_url' = None
    /\ stage' = "Image Generations"
    /\ rerun' = TRUE
    /\ notice' = "none"
    /\ raised' = {}
    /\ UNCHANGED <<description_approved, fb_image_approved, ig_image_approved,
                   newsletter_approved, generated_description, fb_image_url,
                   newsletter_html, user_inputs, calls>>
    /\ StartupStore

\* (mutant) the Instagram button sets the Facebook flag
ApproveIG_SetsFb ==
    /\ ~rerun
    /\ IgButtonsShown
    /\ fb_image_approved' = TRUE
    /\ rerun' = TRUE
    /\ notice' = "none"
    /\ raised' = {}
    /\ UNCHANGED <<stage, description_approved, ig_image_approved,
                   newsletter_approved, generated_description, fb_image_url,
                   ig_image_url, newsletter_html, user_inputs, calls>>
    /\ StartupStore

\* "Approve IG Image" (lines 390-392)
ApproveIG ==
    /\ ~rerun
    /\ IgButtonsShown
    /\ ig_image_approved' = TRUE
    /\ rerun' = TRUE
    /\ notice' = "none"
    /\ raised' = {}
    /\ UNCHANGED <<stage, description_approved, fb_image_approved,
                   newsletter_approved, generated_description, fb_image_url,
                   ig_image_url, newsletter_html, user_inputs, calls>>
    /\ StartupStore

\* (mutant) "Approve without IG Image" keeps the stored reference
ApproveWithoutIG_KeepsRef ==
    /\ ~rerun
    /\ IgButtonsShown
    /\ ig_image_approved' = TRUE
    /\ rerun' = TRUE
    /\ notice' = "none"
    /\ raised' = {}
    /\ UNCHANGED <<stage, description_approved, fb_image_approved,
                   newsletter_approved, generated_description, fb_image_url,
                   ig_image_url, newsletter_html, user_inputs, calls>>
    /\ StartupStore

\* "Approve without IG Image" (lines 393-396)
ApproveWithoutIG ==
    /\ ~rerun
    /\ IgButtonsShown
    /\ ig_image_approved' = TRUE
    /\ ig_image_url' = None
    /\ rerun' = TRUE
    /\ notice' = "none"
    /\ raised' = {}
    /\ UNCHANGED <<stage, description_approved, fb_image_approved,
                   newsletter_approved, generated_description, fb_image_url,
                   newsletter_html, user_inputs, calls>>
    /\ StartupStore

\* The user edits the newsletter's HTML (lines 432-433)
EditNewsletter(text) ==
    /\ ~rerun
    /\ NewsletterShown
    /\ text # newsletter_html
    /\ newsletter_html' = text
    /\ rerun' = FALSE
    /\ notice' = "none"
    /\ raised' = {}
    /\ UNCHANGED <<stage, description_approved, fb_image_approved,
                   ig_image_approved, newsletter_approved, generated_description,
                   fb_image_url, ig_image_url, user_inputs, calls>>
    /\ StartupStore

\* "Approve Newsletter" (lines 435-439)
ApproveNewsletter ==
    /\ ~rerun
    /\ NewsletterShown
    /\ ~newsletter_approved
    /\ newsletter_approved' = TRUE
    /\ stage' = "final"
    /\ rerun' = TRUE
    /\ notice' = "none"
    /\ raised' = {}
    /\ UNCHANGED <<description_approved, fb_image_approved, ig_image_approved,
                   generated_description, fb_image_url, ig_image_url,
                   newsletter_html, user_inputs, calls>>
    /\ StartupStore
(***************************************************************************)
(* The record store.                                                       *)
(***************************************************************************)
Max(S) == CHOOSE x \in S : \A y \in S : y <= x

\* (mutant) the largest id in the table is given again
NextId_Reused(rows) == Max({1} \cup {rows[i].id : i \in 1..Len(rows)})

\* The id an INTEGER PRIMARY KEY AUTOINCREMENT column gives the next row
NextId(rows) == 1 + Max({0} \cup {rows[i].id : i \in 1..Len(rows)})

\* The row save_event_to_db inserts (lines 207-221): the key, the form's
\* columns and the timestamp.  The columns description, fb_image_url,
\* ig_image_url and newsletter_html are copies of the session's fields at the
\* time of the save; the table is never read back into the session, and the
\* model leaves those four copies out of the row.
EventRow(rows, created_at) ==
    [id |-> NextId(rows),
     title |-> Get("title", <<>>),
     start_time |-> Get("start_time", ""),
     end_time |-> Get("end_time", ""),
     location |-> Get("location", <<>>),
     facilitators |-> Get("facilitators", <<>>),
     created_at |-> created_at]

\* The file save_event_to_db connects to (line 205)
SaveFile == "events.db"

\* The INSERT of save_event_to_db can succeed: the table is in the file
InsertPossible(d) == d[SaveFile].has_table

\* (mutant) the row is committed although the save reports an error
RowsAfterSave_CommitsOnError(rows, inserted, created_at) ==
    Append(rows, EventRow(rows, created_at))

\* The table's rows after save_event_to_db: one more row when the INSERT
\* and the commit went through, the same rows when sqlite3.Error was raised
RowsAfterSave(rows, inserted, created_at) ==
    IF inserted THEN Append(rows, EventRow(rows, created_at)) ELSE rows

\* The message of the sqlite3.Error raised when the events table is missing
MissingTable == "no such table: events"

\* The sqlite3.Error a failed save reports
SaveError(d) ==
    IF InsertPossible(d) THEN "sqlite3.Error" ELSE MissingTable

\* "Save Event to Database" (lines 448-453) and save_event_to_db (202-226):
\* the clock is read, then the INSERT succeeds or raises sqlite3.Error
Save ==
    /\ ~rerun
    /\ SaveButtonShown
    /\ \E t \in clock..MaxClock, insert_ok \in BOOLEAN :
         LET d == InitializeDatabase(db, DB_FILE)
             rows == d[SaveFile].rows
             inserted == insert_ok /\ InsertPossible(d)
         IN /\ clock' = t
            /\ inserted => Len(rows) < MaxRows
            /\ db' = [d EXCEPT ![SaveFile].rows = RowsAfterSave(rows, inserted, t)]
            /\ IF inserted
               THEN notice' = "saved" /\ raised' = {}
               ELSE notice' = "save_error" /\ raised' = {<<"save", SaveError(d)>>}
    /\ rerun' = FALSE
    /\ UNCHANGED <<session, DB_FILE, calls>>

\* The file view_events_page connects to (line 476)
ViewFile == "events.db"

\* What view_events_page displays (lines 473-512)
ViewResult(d) ==
    IF ~d[ViewFile].has_table THEN "fetch_error"
    ELSE IF d[ViewFile].rows = <<>> THEN "no_events"
    ELSE "events_listed"

\* The user looks at "View Past Events" (lines 520-525, 473-512) and comes
\* back: the page reads the table and writes no session key, and the run
\* that redraws "Create New Event" without a widget event changes nothing
ViewEvents ==
    /\ ~rerun
    /\ LET d == InitializeDatabase(db, DB_FILE)
       IN /\ db' = d
          /\ notice' = ViewResult(d)
          /\ raised' = IF ViewResult(d) = "fetch_error"
                       THEN {<<"view", MissingTable>>} ELSE {}
    /\ rerun' = FALSE
    /\ UNCHANGED <<session, DB_FILE, clock, calls>>

(***************************************************************************)
(* Runs started by st.rerun(): no widget reports an event.                 *)
(***************************************************************************)
\* Agent 1 (lines 301-312 and run_content_writer_agent)
RunGenerateDescription ==
    /\ rerun
    /\ stage = "generate_description"
    /\ \/ \E text \in GeneratedTexts :
            /\ generated_description' = FormatDescription(text, user_inputs)
            /\ notice' = "agent1_finished"
            /\ raised' = {}
       \/ \E err \in ProviderErrors :
            /\ generated_description' = generated_description
            /\ notice' = DescriptionErrorNotice(err)
            /\ raised' = {<<"description", err>>}
    /\ desc_calls' = desc_calls + 1
    /\ stage' = "review_description"
    /\ rerun' = TRUE
    /\ UNCHANGED <<description_approved, fb_image_approved, ig_image_approved,
                   newsletter_approved, fb_image_url, ig_image_url,
                   newsletter_html, user_inputs, fb_calls, ig_calls, news_calls>>
    /\ StartupStore

\* (mutant) the approval test of line 330 is inverted
FbCallDue_IgnoresApproval == user_inputs.gen_fb

FbCallDue_Inverted == user_inputs.gen_fb /\ fb_image_approved

\* Is the Facebook image requested from the pipeline in "Image Generations" (line 330)
FbCallDue == user_inputs.gen_fb /\ ~fb_image_approved

\* (mutant) the request flag of line 337 is not looked at
IgCallDue_IgnoresFlag == ~ig_image_approved

\* Is the Instagram image requested from the pipeline (line 337)
IgCallDue == user_inputs.gen_ig /\ ~ig_image_approved

\* (mutant) the run of agents 2 and 3 goes on to the newsletter call
RunImageGenerations_ThenNewsletter ==
    /\ rerun
    /\ stage = "Image Generations" /\ description_approved
    /\ \E fb_outcome \in (IF FbCallDue THEN ImageOutcomes ELSE {"not called"}),
          ig_outcome \in (IF IgCallDue THEN ImageOutcomes ELSE {"not called"}) :
         /\ IF FbCallDue
            THEN /\ fb_image_url' = ImageAgentResult(fb_outcome, "fb", fb_calls + 1)
                 /\ fb_calls' = fb_calls + 1
            ELSE UNCHANGED <<fb_image_url, fb_calls>>
         /\ IF IgCallDue
            THEN /\ ig_image_url' = ImageAgentResult(ig_outcome, "ig", ig_calls + 1)
                 /\ ig_calls' = ig_calls + 1
            ELSE UNCHANGED <<ig_image_url, ig_calls>>
         /\ raised' = {<<"fb", fb_outcome>>, <<"ig", ig_outcome>>}
                          \cap ({"fb", "ig"} \X ImageErrors)
    /\ news_calls' = news_calls + 1
    /\ stage' = "review_images"
    /\ rerun' = TRUE
    /\ notice' = "none"
    /\ UNCHANGED <<description_approved, fb_image_approved, ig_image_approved,
                   newsletter_approved, generated_description, newsletter_html,
                   user_inputs, desc_calls>>
    /\ StartupStore

\* Agents 2 and 3 (lines 328-345)
RunImageGenerations ==
    /\ rerun
    /\ stage = "Image Generations" /\ description_approved
    /\ \E fb_outcome \in (IF FbCallDue THEN ImageOutcomes ELSE {"not called"}),
          ig_outcome \in (IF IgCallDue THEN ImageOutcomes ELSE {"not called"}) :
         /\ IF FbCallDue
            THEN /\ fb_image_url' = ImageAgentResult(fb_outcome, "fb", fb_calls + 1)
                 /\ fb_calls' = fb_calls + 1
            ELSE UNCHANGED <<fb_image_url, fb_calls>>
         /\ IF IgCallDue
            THEN /\ ig_image_url' = ImageAgentResult(ig_outcome, "ig", ig_calls + 1)
                 /\ ig_calls' = ig_calls + 1
            ELSE UNCHANGED <<ig_image_url, ig_calls>>
         /\ raised' = {<<"fb", fb_outcome>>, <<"ig", ig_outcome>>}
                          \cap ({"fb", "ig"} \X ImageErrors)
    /\ stage' = "review_images"
    /\ rerun' = TRUE
    /\ notice' = "none"
    /\ UNCHANGED <<description_approved, fb_image_approved, ig_image_approved,
                   newsletter_approved, generated_description, newsletter_html,
                   user_inputs, desc_calls, news_calls>>
    /\ StartupStore

\* The images gate (lines 347-355, 400-402)
RunImagesGate ==
    /\ rerun
    /\ stage = "review_images" /\ description_approved
    /\ AllImagesApproved
    /\ stage' = "generate_newsletter"
    /\ rerun' = TRUE
    /\ notice' = "none"
    /\ raised' = {}
    /\ UNCHANGED <<description_approved, fb_image_approved, ig_image_approved,
                   newsletter_approved, generated_description, fb_image_url,
                   ig_image_url, newsletter_html, user_inputs, calls>>
    /\ StartupStore

\* Agent 4 (lines 405-419 and run_newsletter_composer_agent)
RunGenerateNewsletter ==
    /\ rerun
    /\ stage = "generate_newsletter" /\ user_inputs.gen_news
    /\ IF HeaderImage # None
       THEN /\ \/ \E html_content \in NewsletterOutputs :
                    /\ newsletter_html' = CleanNewsletter(html_content)
                    /\ raised' = {}
               \/ \E err \in ProviderErrors :
                    /\ newsletter_html' = newsletter_html
                    /\ raised' = {<<"newsletter", err>>}
            /\ news_calls' = news_calls + 1
       ELSE /\ newsletter_html' = ManualNewsletter(user_inputs.title,
                                                   generated_description)
            /\ news_calls' = news_calls
            /\ raised' = {}
    /\ stage' = "review_newsletter"
    /\ rerun' = TRUE
    /\ notice' = "none"
    /\ UNCHANGED <<description_approved, fb_image_approved, ig_image_approved,
                   newsletter_approved, generated_description, fb_image_url,
                   ig_image_url, user_inputs, desc_calls, fb_calls, ig_calls>>
    /\ StartupStore

\* (mutant) the skip stops at the newsletter review
StageAfterSkip_Review == "review_newsletter"

\* The stage set when the newsletter is not requested (line 421)
StageAfterSkip == "final"

\* The newsletter is not requested (lines 420-422)
RunSkipNewsletter ==
    /\ rerun
    /\ stage = "generate_newsletter" /\ ~user_inputs.gen_news
    /\ stage' = StageAfterSkip
    /\ rerun' = TRUE
    /\ notice' = "none"
    /\ raised' = {}
    /\ UNCHANGED <<description_approved, fb_image_approved, ig_image_approved,
                   newsletter_approved, generated_description, fb_image_url,
                   ig_image_url, newsletter_html, user_inputs, calls>>
    /\ StartupStore

\* A run in which no branch ends in st.rerun(): the script draws its widgets
\* and reaches its end
RunToEnd ==
    /\ rerun
    /\ stage # "generate_description"
    /\ ~(stage = "Image Generations" /\ description_approved)
    /\ ~(stage = "review_images" /\ description_approved /\ AllImagesApproved)
    /\ stage # "generate_newsletter"
    /\ rerun' = FALSE
    /\ notice' = "none"
    /\ raised' = {}
    /\ UNCHANGED <<session, calls>>
    /\ StartupStore

Next ==
    \/ \E inp \in FormInputs : Submit(inp)
    \/ \E text \in EditedDescriptions : EditDescription(text)
    \/ ApproveDescription
    \/ RegenerateFB
    \/ ApproveFB
    \/ ApproveWithoutFB
    \/ RegenerateIG
    \/ ApproveIG
    \/ ApproveWithoutIG
    \/ \E text \in EditedNewsletters : EditNewsletter(text)
    \/ ApproveNewsletter
    \/ Save
    \/ ViewEvents
    \/ RunGenerateDescription
    \/ RunImageGenerations
    \/ RunImagesGate
    \/ RunGenerateNewsletter
    \/ RunSkipNewsletter
    \/ RunToEnd

Spec == Init /\ [][Next]_vars
(***************************************************************************)
(* Properties.                                                             *)
(***************************************************************************)
\* The request flags of the current run
Requested(flag) == user_inputs # <<>> /\ user_inputs[flag]

\* C1: whenever the stage is final, the description is approved and every
\* requested artifact (facebook image, instagram image, newsletter) is
\* approved, for each of the 8 combinations of the request flags.
C1_FinalRequiresApprovals ==
    stage = "final" =>
        /\ description_approved
        /\ (Requested("gen_fb") => fb_image_approved)
        /\ (Requested("gen_ig") => ig_image_approved)
        /\ (Requested("gen_news") => newsletter_approved)

\* final reached with all three artifacts requested
C1_Witness ==
    /\ stage = "final"
    /\ Requested("gen_fb") /\ Requested("gen_ig") /\ Requested("gen_news")
    /\ fb_image_approved /\ ig_image_approved /\ newsletter_approved

\* An artifact of the current run is missing after its pipeline call
C2_ArtifactFailed ==
    \/ desc_calls >= 1 /\ generated_description = <<>>
    \/ /\ fb_calls >= 1 /\ Requested("gen_fb")
       /\ fb_image_url = None /\ ~fb_image_approved
    \/ /\ ig_calls >= 1 /\ Requested("gen_ig")
       /\ ig_image_url = None /\ ~ig_image_approved
    \/ news_calls >= 1 /\ newsletter_html = <<>>

\* A review action (approve, approve without image, regenerate) is on screen
C2_ReviewActionOffered ==
    \/ DescriptionButtonShown
    \/ FbButtonsShown
    \/ IgButtonsShown
    \/ NewsletterShown /\ ~newsletter_approved

\* C2: a failed artifact never blocks progress: when the script waits for
\* the user in a stage before final and an artifact of the run has failed,
\* the review screen offers an action (approve, approve without image or
\* regenerate) that moves the run on without a new form submission.
C2_FailedArtifactNeverBlocks ==
    (~rerun /\ stage \notin {"initial", "final"} /\ C2_ArtifactFailed)
        => C2_ReviewActionOffered

\* The other class is in one of the states the claim lists: not requested,
\* approved (with or without a reference), or unapproved with a reference
C3_IgSettled == ~Requested("gen_ig") \/ ig_image_approved \/ ig_image_url # None
C3_FbSettled == ~Requested("gen_fb") \/ fb_image_approved \/ fb_image_url # None

\* C3: when one image class is regenerated (a run of "Image Generations"
\* after that class was called before), the other class's approval flag and
\* reference are the same after the run as before it and no pipeline call
\* is made for the other class.
C3_RegenerateLeavesOtherClass ==
    [][ (stage = "Image Generations" /\ stage' = "review_images") =>
          /\ (fb_calls >= 1 /\ C3_IgSettled) =>
                /\ ig_image_url' = ig_image_url
                /\ ig_image_approved' = ig_image_approved
                /\ ig_calls' = ig_calls
          /\ (ig_calls >= 1 /\ C3_FbSettled) =>
                /\ fb_image_url' = fb_image_url
                /\ fb_image_approved' = fb_image_approved
                /\ fb_calls' = fb_calls ]_vars

\* C4: a form submission, made in any stage, sets the stage to
\* generate_description at once, and exactly one description call is made
\* between the submission and the stage becoming review_description,
\* whether the call succeeds or fails.
C4_SubmitThenOneDescriptionCall ==
    /\ [][ (\E inp \in FormInputs : Submit(inp)) =>
              (stage' = "generate_description" /\ desc_calls' = 0) ]_vars
    /\ [][ (stage' = "review_description" /\ stage # "review_description") =>
              (stage = "generate_description" /\ desc_calls' = desc_calls + 1) ]_vars
    /\ [](stage = "generate_description" => desc_calls = 0)
    /\ [](stage = "review_description" => desc_calls = 1)

\* review_description reached after a failed description call
C4_Witness ==
    /\ stage = "review_description"
    /\ desc_calls = 1
    /\ generated_description = <<>>
    /\ notice = "unexpected_error"

\* C5: approving the description happens in review_description and moves
\* the stage to "Image Generations"; the stage is never review_images before
\* one image call has been made for each requested class.
C5_ApproveThenAttemptImages ==
    /\ [][ (description_approved' /\ ~description_approved) =>
              (stage = "review_description" /\ stage' = "Image Generations") ]_vars
    /\ [][ stage' = "review_images" =>
              stage \in {"Image Generations", "review_images"} ]_vars
    /\ [](stage = "review_images" =>
              /\ (Requested("gen_fb") => fb_calls >= 1)
              /\ (Requested("gen_ig") => ig_calls >= 1))

\* review_images reached with both classes requested, each attempted once
C5_Witness ==
    /\ stage = "review_images"
    /\ Requested("gen_fb") /\ Requested("gen_ig")
    /\ fb_calls = 1 /\ ig_calls = 1

\* C6: when a class is not requested, no image call is made for it, its
\* reference stays absent, and the run never waits in review_images for it:
\* the images gate passes without any approval of that class.
C6_UnrequestedClassSkipped ==
    /\ (stage # "initial" /\ ~Requested("gen_fb")) =>
          /\ fb_calls = 0
          /\ fb_image_url = None
          /\ ~fb_image_approved
          /\ (~rerun /\ stage = "review_images") =>
                (Requested("gen_ig") /\ ~ig_image_approved)
    /\ (stage # "initial" /\ ~Requested("gen_ig")) =>
          /\ ig_calls = 0
          /\ ig_image_url = None
          /\ ~ig_image_approved
          /\ (~rerun /\ stage = "review_images") =>
                (Requested("gen_fb") /\ ~fb_image_approved)

\* the gate was passed with facebook not requested and instagram approved
C6_Witness ==
    /\ stage = "generate_newsletter"
    /\ ~Requested("gen_fb") /\ Requested("gen_ig")
    /\ ~fb_image_approved /\ ig_image_approved
    /\ fb_calls = 0 /\ ig_calls >= 1

\* The body the claim states: the title as a heading, then the description
\* with each line break replaced by <br>, as a paragraph
C7_ExpectedBody(title, description) ==
    <<"<h1>">> \o title \o <<"</h1>", "<p>">>
        \o [i \in 1..Len(description) |->
              IF description[i] = NL THEN "<br>" ELSE description[i]]
        \o <<"</p>">>

\* C7: a run in generate_newsletter with the newsletter requested and
\* neither image reference present sets the body to the manual HTML, makes
\* no newsletter call and moves the stage to review_newsletter.
C7_ManualNewsletterFallback ==
    [][ ( /\ stage = "generate_newsletter"
          /\ Requested("gen_news")
          /\ fb_image_url = None /\ ig_image_url = None
          /\ stage' \notin {"generate_newsletter", "generate_description"} ) =>
            /\ stage' = "review_newsletter"
            /\ newsletter_html' =
                   C7_ExpectedBody(user_inputs.title, generated_description)
            /\ news_calls = 0 /\ news_calls' = 0 ]_vars

\* the fallback has run on a description that holds line breaks
C7_Witness ==
    /\ stage = "review_newsletter" /\ rerun
    /\ fb_image_url = None /\ ig_image_url = None
    /\ news_calls = 0
    /\ \E i \in 1..Len(generated_description) : generated_description[i] = NL
    /\ \E i \in 1..Len(newsletter_html) : newsletter_html[i] = "<br>"

\* All three request flags are false
C8_NothingRequested ==
    /\ user_inputs # <<>>
    /\ ~user_inputs.gen_fb /\ ~user_inputs.gen_ig /\ ~user_inputs.gen_news

\* C8: with all three flags false the run makes no image and no newsletter
\* call, has made exactly one description call when it is past
\* generate_description, and waits for the user only in review_description
\* (where the approve button is offered) and in final.
C8_DescriptionOnlyRun ==
    C8_NothingRequested =>
        /\ fb_calls = 0 /\ ig_calls = 0 /\ news_calls = 0
        /\ (stage # "generate_description" => desc_calls = 1)
        /\ ~rerun => stage \in {"review_description", "final"}
        /\ (~rerun /\ stage = "review_description") => DescriptionButtonShown
        /\ stage \notin {"review_description", "generate_description"}
              => description_approved

\* final reached with nothing requested
C8_Witness ==
    /\ C8_NothingRequested
    /\ stage = "final" /\ ~rerun
    /\ desc_calls = 1

\* The rows of the events table in a file
C9_Rows(d, f) == d[f].rows

\* C9: every change of the store is one insert of one row into one table,
\* made from final with every requested artifact approved; the new row's id
\* is greater than every earlier id and its timestamp is not earlier than
\* any earlier row's.  A save is attempted only in such a state.
C9_SaveInsertsOneRow ==
    /\ [][ \A f \in DbFiles :
             C9_Rows(db', f) # C9_Rows(db, f) =>
               LET old == C9_Rows(db, f)
                   new == C9_Rows(db', f)
               IN /\ Len(new) = Len(old) + 1
                  /\ SubSeq(new, 1, Len(old)) = old
                  /\ \A i \in 1..Len(old) :
                        /\ new[Len(new)].id > old[i].id
                        /\ new[Len(new)].created_at >= old[i].created_at
                  /\ \A g \in DbFiles \ {f} : C9_Rows(db', g) = C9_Rows(db, g)
                  /\ notice' = "saved"
                  /\ stage = "final" /\ C1_FinalRequiresApprovals ]_vars
    /\ [](notice \in {"saved", "save_error"} =>
             stage = "final" /\ C1_FinalRequiresApprovals)

\* two saves have succeeded
C9_Witness ==
    /\ notice = "saved"
    /\ Len(db[SaveFile].rows) = 2
    /\ db[SaveFile].rows[2].id > db[SaveFile].rows[1].id

\* The draft fields
C10_Draft ==
    <<generated_description, fb_image_url, ig_image_url, newsletter_html>>

\* C10: after a successful save the draft is inert: the next step, unless it
\* is a new form submission, changes no draft field and creates no record.
C10_DraftInertAfterSave ==
    [][ (notice = "saved" /\ stage' # "generate_description") =>
          /\ C10_Draft' = C10_Draft
          /\ db' = db ]_vars

\* The category the claim gives each kind of provider error
C11_ExpectedCategory(err) ==
    CASE err \in {"RateLimitError", "AuthenticationError"} -> "check_key_or_limits"
      [] err = "APIError" -> "service_might_be_down"
      [] OTHER -> "unexpected_error"

\* C11: a provider error during description drafting is reported under the
\* category of its kind (rate-limit or authentication: check the key or the
\* usage limits; server error: the service might be down; anything else:
\* unexpected), and the description is left unset.
C11_DescriptionErrorCategory ==
    \A err \in ProviderErrors :
        (stage = "review_description" /\ raised = {<<"description", err>>}) =>
            /\ notice = C11_ExpectedCategory(err)
            /\ generated_description = <<>>

\* The four approval flags
C12_Flags ==
    <<description_approved, fb_image_approved, ig_image_approved,
      newsletter_approved>>

\* A step that starts a new run (a form submission)
C12_NewRun == stage' = "generate_description" /\ desc_calls' = 0

\* C12: within a run each approval flag starts false, becomes true only by
\* the user's approve action on that artifact, and becomes false again only
\* by a regenerate action on that artifact; no generation result, edit or
\* action on another artifact changes it.
C12_FlagsChangeOnlyByApprove ==
    /\ [](stage \in {"initial", "generate_description"} =>
             C12_Flags = <<FALSE, FALSE, FALSE, FALSE>>)
    /\ [][ /\ (description_approved' /\ ~description_approved) => ApproveDescription
           /\ (fb_image_approved' /\ ~fb_image_approved) =>
                 (ApproveFB \/ ApproveWithoutFB)
           /\ (ig_image_approved' /\ ~ig_image_approved) =>
                 (ApproveIG \/ ApproveWithoutIG)
           /\ (newsletter_approved' /\ ~newsletter_approved) => ApproveNewsletter
           /\ (fb_image_approved /\ ~fb_image_approved' /\ ~C12_NewRun) => RegenerateFB
           /\ (ig_image_approved /\ ~ig_image_approved' /\ ~C12_NewRun) => RegenerateIG
           /\ ((description_approved /\ ~description_approved')
                 \/ (newsletter_approved /\ ~newsletter_approved')) => C12_NewRun
         ]_vars

\* all four flags have been set by the user in one run, and the text areas
\* were edited after the approvals
C12_Witness ==
    /\ C12_Flags = <<TRUE, TRUE, TRUE, TRUE>>
    /\ generated_description \in EditedDescriptions

\* C13: final is terminal for the run: in final no action and no generation
\* result changes the stage or an approval flag; only a new form
\* submission leaves final.
C13_FinalIsTerminal ==
    [][ stage = "final" =>
          \/ stage' = "final" /\ C12_Flags' = C12_Flags
          \/ \E inp \in FormInputs : Submit(inp) ]_vars

\* in final, after a save and with an approved Facebook image still on screen
C13_Witness ==
    /\ stage = "final"
    /\ notice = "saved"
    /\ fb_image_approved /\ fb_image_url # None
    /\ Requested("gen_news")

\* C14: a form submission made in any stage resets the run: the four flags
\* become false, the description and the newsletter body empty, both image
\* references absent, the captured inputs are the submitted ones, and the
\* run restarts at the first step of the pipeline (the description call,
\* with no pipeline call made yet).
C14_SubmitResetsRun ==
    [][ \A inp \in FormInputs :
          Submit(inp) =>
            /\ C12_Flags' = <<FALSE, FALSE, FALSE, FALSE>>
            /\ generated_description' = <<>>
            /\ newsletter_html' = <<>>
            /\ fb_image_url' = None /\ ig_image_url' = None
            /\ user_inputs' = inp
            /\ stage' = "generate_description"
            /\ calls' = <<0, 0, 0, 0>> ]_vars

\* a new run has started after a run that had reached final with other
\* inputs and a saved row
C14_Witness ==
    /\ stage = "generate_description"
    /\ ~Requested("gen_news") /\ ~Requested("gen_fb")
    /\ Len(db[SaveFile].rows) >= 1
    /\ db[SaveFile].rows[1].id = 1

\* C15: when the newsletter is not requested, the stage goes from
\* generate_newsletter straight to final and is never review_newsletter,
\* no newsletter call and no manual body is made, and final is reached
\* with the newsletter flag still false.
C15_NewsletterSkipped ==
    /\ []((stage # "initial" /\ ~Requested("gen_news")) =>
            /\ stage # "review_newsletter"
            /\ news_calls = 0
            /\ newsletter_html = <<>>
            /\ ~newsletter_approved)
    /\ [][ ( /\ stage = "generate_newsletter" /\ ~Requested("gen_news")
             /\ stage' # stage /\ ~C12_NewRun ) => stage' = "final" ]_vars

\* final reached without a newsletter, with an image approved
C15_Witness ==
    /\ stage = "final" /\ ~rerun
    /\ ~Requested("gen_news") /\ Requested("gen_fb")
    /\ fb_image_url # None
    /\ ~newsletter_approved /\ newsletter_html = <<>>

\* C16: a generation call, failed or not, moves the stage to the same
\* review stage (review_description, review_images, review_newsletter), and
\* after a failed call the corresponding field is empty (description,
\* newsletter body) or absent (image reference); the stage is never a
\* value outside the eight stages.
C16_Stages ==
    {"initial", "generate_description", "review_description",
     "Image Generations", "review_images", "generate_newsletter",
     "review_newsletter", "final"}

C16_FailedCallContinues ==
    /\ [](stage \in C16_Stages)
    /\ [][ /\ desc_calls' > desc_calls =>
                /\ stage = "generate_description"
                /\ stage' = "review_description"
                /\ (\E err \in ProviderErrors : <<"description", err>> \in raised')
                      => generated_description' = <<>>
           /\ (fb_calls' > fb_calls \/ ig_calls' > ig_calls) =>
                /\ stage = "Image Generations"
                /\ stage' = "review_images"
                /\ (fb_calls' > fb_calls /\ \E e \in ImageErrors : <<"fb", e>> \in raised')
                      => fb_image_url' = None
                /\ (ig_calls' > ig_calls /\ \E e \in ImageErrors : <<"ig", e>> \in raised')
                      => ig_image_url' = None
           /\ news_calls' > news_calls =>
                /\ stage = "generate_newsletter"
                /\ stage' = "review_newsletter"
                /\ (\E err \in ProviderErrors : <<"newsletter", err>> \in raised')
                      => newsletter_html' = <<>> ]_vars

\* the review of the images after a regeneration in which the Facebook
\* call raised APIError and the Instagram call succeeded
C16_Witness ==
    /\ stage = "review_images"
    /\ raised = {<<"fb", "APIError">>}
    /\ fb_calls = 2 /\ fb_image_url = None
    /\ ig_calls = 2 /\ ig_image_url # None

\* C17: a save that fails with a store error leaves the stage, the four
\* flags, the drafts and the captured inputs unchanged, adds no row to any
\* table, and leaves the save button drawn with no rerun pending, so the
\* save can be attempted again.
C17_Rows == [f \in DbFiles |-> db[f].rows]

C17_FailedSaveKeepsState ==
    [][ notice' = "save_error" =>
          /\ SaveButtonShown
          /\ session' = session
          /\ C17_Rows' = C17_Rows
          /\ SaveButtonShown' /\ ~rerun' ]_vars

\* a save has just failed with a store error although the table exists,
\* in a run whose flags are all set, and the button is still drawn
C17_Witness ==
    /\ notice = "save_error"
    /\ raised = {<<"save", "sqlite3.Error">>}
    /\ stage = "final" /\ SaveButtonShown
    /\ C12_Flags = <<TRUE, TRUE, TRUE, TRUE>>
    /\ db[SaveFile].rows = <<>>

\* C18: every change of the stage is a step to the next stage of the order
\* initial, generate_description, review_description, Image Generations,
\* review_images, generate_newsletter, review_newsletter, final; or the
\* regeneration loop review_images -> Image Generations; or the skip
\* generate_newsletter -> final when the newsletter is not requested; or
\* the reset of a form submission.
C18_NextStage ==
    {<<"initial", "generate_description">>,
     <<"generate_description", "review_description">>,
     <<"review_description", "Image Generations">>,
     <<"Image Generations", "review_images">>,
     <<"review_images", "generate_newsletter">>,
     <<"generate_newsletter", "review_newsletter">>,
     <<"review_newsletter", "final">>}

C18_OnlyListedStageChanges ==
    [][ stage' # stage =>
          \/ <<stage, stage'>> \in C18_NextStage
          \/ <<stage, stage'>> = <<"review_images", "Image Generations">>
          \/ /\ <<stage, stage'>> = <<"generate_newsletter", "final">>
             /\ ~Requested("gen_news")
          \/ \E inp \in FormInputs : Submit(inp) ]_vars

\* final reached through the whole order, the regeneration loop included
C18_Witness ==
    /\ stage = "final"
    /\ Requested("gen_news") /\ newsletter_approved
    /\ Requested("gen_ig") /\ ig_calls = 2 /\ ig_image_approved

\* C19: once an image class's flag is true, until the next form submission
\* the image agent is not called for that class and its stored reference
\* (present, or absent after approve-without-image) does not change,
\* whatever happens to the other class.
C19_ApprovedImageUntouched ==
    [][ (\A inp \in FormInputs : ~Submit(inp)) =>
          /\ fb_image_approved =>
                fb_calls' = fb_calls /\ fb_image_url' = fb_image_url
          /\ ig_image_approved =>
                ig_calls' = ig_calls /\ ig_image_url' = ig_image_url ]_vars

\* the Facebook image was approved after its first call and the Instagram
\* image has been regenerated since
C19_Witness ==
    /\ stage = "review_images"
    /\ fb_image_approved /\ fb_calls = 1 /\ fb_image_url = Url("fb", 1)
    /\ ~ig_image_approved /\ ig_calls = 2

\* C20: an approve action on an image is taken in review_images on an
\* image whose flag is false; it sets that flag and keeps the reference,
\* and approve-without-image sets the flag and makes the reference absent;
\* neither changes the stage, the call counts, or the other image's flag
\* and reference.
C20_ApproveActionsFrame ==
    [][ /\ (ApproveFB \/ ApproveWithoutFB) =>
              /\ stage = "review_images" /\ stage' = stage
              /\ ~fb_image_approved /\ fb_image_approved'
              /\ ig_image_approved' = ig_image_approved
              /\ ig_image_url' = ig_image_url
              /\ description_approved' = description_approved
              /\ newsletter_approved' = newsletter_approved
              /\ calls' = calls
        /\ (ApproveIG \/ ApproveWithoutIG) =>
              /\ stage = "review_images" /\ stage' = stage
              /\ ~ig_image_approved /\ ig_image_approved'
              /\ fb_image_approved' = fb_image_approved
              /\ fb_image_url' = fb_image_url
              /\ description_approved' = description_approved
              /\ newsletter_approved' = newsletter_approved
              /\ calls' = calls
        /\ ApproveFB => fb_image_url' = fb_image_url /\ fb_image_url # None
        /\ ApproveIG => ig_image_url' = ig_image_url /\ ig_image_url # None
        /\ ApproveWithoutFB => fb_image_url' = None
        /\ ApproveWithoutIG => ig_image_url' = None ]_vars

\* the Facebook image approved with its reference, the Instagram image
\* approved without one, the gate not yet run
C20_Witness ==
    /\ stage = "review_images" /\ rerun
    /\ fb_image_approved /\ fb_image_url # None
    /\ ig_image_approved /\ ig_image_url = None /\ ig_calls >= 1
    /\ raised = {}

\* C21: in one script run the pipeline calls belong to one stage: one
\* description call in generate_description, or one call per image class
\* in Image Generations, or one newsletter call in generate_newsletter;
\* calls are made only in runs started by st.rerun(), never in the run that
\* handles a button or the form, and the run that makes them is the one
\* that leaves the stage.
C21_Reset == \E inp \in FormInputs : Submit(inp)

C21_OneStagePerRun ==
    [][ ~C21_Reset =>
          /\ desc_calls' \in {desc_calls, desc_calls + 1}
          /\ fb_calls' \in {fb_calls, fb_calls + 1}
          /\ ig_calls' \in {ig_calls, ig_calls + 1}
          /\ news_calls' \in {news_calls, news_calls + 1}
          /\ desc_calls' # desc_calls =>
                /\ stage = "generate_description"
                /\ <<fb_calls, ig_calls, news_calls>>' = <<fb_calls, ig_calls, news_calls>>
          /\ (fb_calls' # fb_calls \/ ig_calls' # ig_calls) =>
                /\ stage = "Image Generations"
                /\ <<desc_calls, news_calls>>' = <<desc_calls, news_calls>>
          /\ news_calls' # news_calls =>
                /\ stage = "generate_newsletter"
                /\ <<desc_calls, fb_calls, ig_calls>>' = <<desc_calls, fb_calls, ig_calls>>
          /\ calls' # calls => rerun /\ stage' # stage ]_vars

\* the run that called both image agents has just ended; the newsletter
\* is requested and its agent has not been called
C21_Witness ==
    /\ stage = "review_images" /\ rerun
    /\ desc_calls = 1 /\ fb_calls = 1 /\ ig_calls = 1 /\ news_calls = 0
    /\ Requested("gen_news")
    /\ fb_image_url # None /\ ig_image_url # None

\* C22: after a newsletter call that returned, the stored body holds no
\* fence marker: when the output is wrapped in a fence, opened with a
\* language tag or bare, the body is the wrapped content trimmed, and
\* unwrapped output is stored trimmed.
C22_Wrapped(t) ==
    Len(t) >= 2 /\ t[1] = FENCE /\ t[Len(t)] = FENCE

C22_Inner(t) ==
    LET from == IF Len(t) >= 3 /\ ~IsSpace(t[2]) THEN 3 ELSE 2
    IN SubSeq(t, from, Len(t) - 1)

C22_Expected(html_content) ==
    LET t == Strip(html_content)
    IN IF C22_Wrapped(t) THEN Strip(C22_Inner(t)) ELSE t

C22_FenceStripped ==
    (stage = "review_newsletter" /\ rerun /\ news_calls > 0 /\ raised = {}) =>
        /\ ~Contains(newsletter_html, <<FENCE>>)
        /\ newsletter_html \in {C22_Expected(o) : o \in NewsletterOutputs}

\* C23: the file the save inserts into and the file the browse page reads
\* are the file in which startup created the events table, whatever
\* DB_FILE is configured; so neither a save from final nor the browse page
\* ever fails because the table is missing.
C23_SaveUsesInitializedStore ==
    /\ stage = "final" => db[SaveFile].has_table
    /\ <<"save", MissingTable>> \notin raised
    /\ <<"view", MissingTable>> \notin raised
====
